---- MODULE Spec2Model ----
(***************************************************************************)
(* A model of nmap_parser.py: the extraction of scan records from one Nmap *)
(* XML document (parse_single_nmap_file), the aggregation of several files *)
(* into one table with its optional open-only filter and its output files  *)
(* (nmap_parser), and the statistics of the HTML report                    *)
(* (generate_html_report).                                                 *)
(*                                                                         *)
(* An XML element is a record [tag, attrib, children]: attrib is a set of  *)
(* <<key, value>> pairs with distinct keys, children the sequence of child *)
(* elements in document order.  Strings are TLA+ strings; the only string  *)
(* operations the program needs are concatenation (\o) and comparison.     *)
(***************************************************************************)
EXTENDS Naturals, Sequences, FiniteSets, TLC

VARIABLES
    xml_files,     \* the argument of nmap_parser: a sequence of files
    open_only,     \* --open-only
    excel_output,  \* --excel
    html_output,   \* --html
    prior,         \* what the three output paths held before the run
    pc,            \* the position in nmap_parser (or in the extraction call)
    i,             \* index of the file the loop of nmap_parser is at
    file_data,     \* the value parse_single_nmap_file returned last
    all_data,      \* the records collected so far
    df,            \* the DataFrame once created (and filtered)
    outputs,       \* the three output paths: what each holds
    summary,       \* the printed summary
    error,         \* the message of the exception that ended the run
    exit_status,   \* <<>> while main runs, then <<status>> of the process
    page           \* the report page open in a browser: filters, rows, counter

vars == <<xml_files, open_only, excel_output, html_output, prior, pc, i,
          file_data, all_data, df, outputs, summary, error, exit_status,
          page>>

(***************************************************************************)
(* Bounds of the model.                                                    *)
(***************************************************************************)
MaxFiles == 2
MaxHosts == 2
MaxPorts == 2

(***************************************************************************)
(* xml.etree.ElementTree: elements, find, findall, get.                    *)
(***************************************************************************)
Elem(tag, attrib, children) ==
    [tag |-> tag, attrib |-> attrib, children |-> children]

\* What find returns when no child matches (Python's None): no element of a
\* document has an empty tag.
NoElem == Elem("", {}, <<>>)

\* Element.find(tag): the first direct child with that tag.
find(e, tag) ==
    IF \E k \in 1..Len(e.children) : e.children[k].tag = tag
    THEN e.children[CHOOSE k \in 1..Len(e.children) :
                        /\ e.children[k].tag = tag
                        /\ \A j \in 1..(k - 1) : e.children[j].tag # tag]
    ELSE NoElem

\* Element.findall(tag): the direct children with that tag, in document order.
findall(e, tag) ==
    LET IsTag(c) == c.tag = tag IN SelectSeq(e.children, IsTag)

\* Element.get(key, default).
get(e, key, default) ==
    IF \E p \in e.attrib : p[1] = key
    THEN (CHOOSE p \in e.attrib : p[1] = key)[2]
    ELSE default

(***************************************************************************)
(* Paths.  A file of the run is a record [path, exists, kind, root]: the   *)
(* path given on the command line and what the disk holds there; kind is   *)
(* "xml" (well-formed, root is its root element), "malformed" (ET.parse    *)
(* raises ParseError) or "unreadable" (ET.parse raises another exception,  *)
(* as for a directory).                                                    *)
(***************************************************************************)
\* Path(xml_file).name: the last component of the path.
PathName(path) ==
    CASE path = "scans/scan2.XML" -> "scan2.XML"
      [] path = "scans/scan4.xml" -> "scan4.xml"
      [] OTHER -> path

\* xml_file.lower().endswith('.xml')
EndsWithXml(path) ==
    CASE path = "notes.txt" -> FALSE
      [] path = "scan.xml.bak" -> FALSE
      [] OTHER -> TRUE

(***************************************************************************)
(* parse_single_nmap_file.                                                 *)
(***************************************************************************)
RECURSIVE Join(_, _)
\* sep.join(parts)
Join(parts, sep) ==
    IF parts = <<>> THEN ""
    ELSE IF Len(parts) = 1 THEN parts[1]
    ELSE parts[1] \o sep \o Join(Tail(parts), sep)

\* DetailsParts with the version kept only beside a product.
DetailsParts_VersionNeedsProduct(service_elem) ==
    LET product   == get(service_elem, "product", "")
        version   == get(service_elem, "version", "")
        extrainfo == get(service_elem, "extrainfo", "")
    IN  (IF product # "" THEN <<product>> ELSE <<>>)
        \o (IF product # "" /\ version # ""
            THEN <<"(" \o version \o ")">> ELSE <<>>)
        \o (IF extrainfo # "" THEN <<extrainfo>> ELSE <<>>)

\* details_parts for a service element.  get(key) without a default gives
\* None, which `if product:` treats as it treats "": both are written "".
DetailsParts(service_elem) ==
    LET product   == get(service_elem, "product", "")
        version   == get(service_elem, "version", "")
        extrainfo == get(service_elem, "extrainfo", "")
    IN  (IF product # "" THEN <<product>> ELSE <<>>)
        \o (IF version # "" THEN <<"(" \o version \o ")">> ELSE <<>>)
        \o (IF extrainfo # "" THEN <<extrainfo>> ELSE <<>>)

\* The record of one port element (the body of the loop over ports).
ParsePort(port, ip_address, hostname, path) ==
    LET protocol     == get(port, "protocol", "Unknown")
        port_number  == get(port, "portid", "Unknown")
        state_elem   == find(port, "state")
        state        == IF state_elem # NoElem
                        THEN get(state_elem, "state", "Unknown")
                        ELSE "Unknown"
        service_elem == find(port, "service")
        service      == IF service_elem # NoElem
                        THEN get(service_elem, "name", "Unknown")
                        ELSE "Unknown"
        details_parts == IF service_elem # NoElem
                         THEN DetailsParts(service_elem)
                         ELSE <<>>
        details      == IF details_parts # <<>>
                        THEN Join(details_parts, " ")
                        ELSE "Unknown"
    IN  [IP |-> ip_address, Hostname |-> hostname,
         PortNumber |-> port_number, Protocol |-> protocol,
         State |-> state, Service |-> service, Details |-> details,
         SourceFile |-> PathName(path)]

\* HostnameOf reading the name without a default.
HostnameOf_NoDefault(host) ==
    LET hostnames_elem == find(host, "hostnames")
        hostname_elem  == find(hostnames_elem, "hostname")
    IN  IF hostnames_elem # NoElem /\ hostname_elem # NoElem
        THEN get(hostname_elem, "name", "")
        ELSE "N/A"

\* The host's hostname: the name of the first hostname of the first hostnames.
HostnameOf(host) ==
    LET hostnames_elem == find(host, "hostnames")
        hostname_elem  == find(hostnames_elem, "hostname")
    IN  IF hostnames_elem # NoElem /\ hostname_elem # NoElem
        THEN get(hostname_elem, "name", "N/A")
        ELSE "N/A"

\* The ports container the loop over ports reads.
PortsElem(host) == find(host, "ports")

\* ParseHost without the skip of a host that has no address.
ParseHost_NoAddressSkip(host, path) ==
    LET address_elem == find(host, "address")
        ip_address   == get(address_elem, "addr", "Unknown")
        hostname     == HostnameOf(host)
        ports_elem   == PortsElem(host)
        ports        == findall(ports_elem, "port")
    IN  IF ports_elem = NoElem THEN <<>>
        ELSE [k \in 1..Len(ports) |->
                 ParsePort(ports[k], ip_address, hostname, path)]

\* The records of one host element (the body of the loop over hosts).
ParseHost(host, path) ==
    LET address_elem == find(host, "address")
        ip_address   == get(address_elem, "addr", "Unknown")
        hostname     == HostnameOf(host)
        ports_elem   == PortsElem(host)
        ports        == findall(ports_elem, "port")
    IN  IF address_elem = NoElem THEN <<>>
        ELSE IF ports_elem = NoElem THEN <<>>
        ELSE [k \in 1..Len(ports) |->
                 ParsePort(ports[k], ip_address, hostname, path)]

\* The host elements the loop over hosts visits.
HostsOf(root) == findall(root, "host")

RECURSIVE ParseHosts(_, _)
ParseHosts(hosts, path) ==
    IF hosts = <<>> THEN <<>>
    ELSE ParseHost(Head(hosts), path) \o ParseHosts(Tail(hosts), path)

\* parse_single_nmap_file for a well-formed document.
parse_single_nmap_file(xml_file) == ParseHosts(HostsOf(xml_file.root), xml_file.path)

\* Whether ET.parse raises, and the message nmap_parser then prints.
ParseRaises(xml_file) == xml_file.kind # "xml"

ParseErrorOf(xml_file) ==
    IF xml_file.kind = "malformed" THEN "Invalid XML format" ELSE "OSError"

(***************************************************************************)
(* The input documents of the extraction.                                  *)
(***************************************************************************)
SeqsUpTo(S, n) == UNION {[1..k -> S] : k \in 0..n}

Address(addr) == Elem("address", {<<"addr", addr>>, <<"addrtype", "ipv4">>}, <<>>)
StateE(s)     == Elem("state", {<<"state", s>>, <<"reason", "syn-ack">>}, <<>>)
ServiceE(a)   == Elem("service", a, <<>>)
PortE(portid, children) ==
    Elem("port", {<<"protocol", "tcp">>, <<"portid", portid>>}, children)
Ports(ps)     == Elem("ports", {}, ps)
Hostnames(hs) == Elem("hostnames", {}, hs)
HostnameE(n)  == Elem("hostname", {<<"name", n>>, <<"type", "PTR">>}, <<>>)
Host(cs)      == Elem("host", {}, cs)

\* Service elements: every combination of product, version and extrainfo
\* present or absent, then blank attributes and a missing name.
ServiceVariants ==
    {ServiceE({<<"name", "http">>} \cup pa \cup va \cup ea) :
        pa \in {{}, {<<"product", "Apache">>}},
        va \in {{}, {<<"version", "2.4">>}},
        ea \in {{}, {<<"extrainfo", "(Debian)">>}}}
    \cup {ServiceE({}),
          ServiceE({<<"name", "">>}),
          ServiceE({<<"product", "nginx">>}),
          ServiceE({<<"name", "http">>, <<"product", "">>, <<"version", "2.4">>}),
          ServiceE({<<"name", "http">>, <<"product", "">>, <<"version", "">>,
                    <<"extrainfo", "">>})}

\* Port elements: the service variants, then a missing service, two services,
\* the variants of the state element and of the port's own attributes.
PortVariants ==
    {PortE("80", <<StateE("open"), sv>>) : sv \in ServiceVariants}
    \cup {PortE("80", <<StateE("open")>>),
          PortE("80", <<StateE("open"),
                        ServiceE({<<"name", "http">>, <<"version", "2.4">>}),
                        ServiceE({<<"name", "ssh">>, <<"product", "OpenSSH">>})>>),
          PortE("22", <<ServiceE({<<"name", "ssh">>})>>),
          PortE("22", <<Elem("state", {}, <<>>), ServiceE({<<"name", "ssh">>})>>),
          PortE("22", <<StateE(""), ServiceE({<<"name", "ssh">>})>>),
          PortE("22", <<StateE("closed"), StateE("open"),
                        ServiceE({<<"name", "ssh">>})>>),
          Elem("port", {}, <<StateE("open"), ServiceE({<<"name", "ssh">>})>>),
          Elem("port", {<<"protocol", "">>, <<"portid", "">>},
               <<StateE("open"), ServiceE({<<"name", "ssh">>})>>)}

P1 == PortE("22", <<StateE("open"),
                    ServiceE({<<"name", "ssh">>, <<"product", "OpenSSH">>})>>)
P2 == PortE("80", <<StateE("closed"), ServiceE({<<"name", "http">>})>>)
A1 == Address("10.0.0.1")
H1 == Hostnames(<<HostnameE("a.example")>>)

\* Children of the root: hosts of every shape the traversal distinguishes,
\* and elements that are no host.
TopLevelVariants ==
    {Host(<<A1, H1, Ports(<<P1>>)>>),
     Host(<<A1, H1, Ports(<<P1, P2>>)>>),
     Host(<<Ports(<<P1>>), H1, Address("10.0.0.2")>>),
     Host(<<H1, Ports(<<P1>>)>>),
     Host(<<A1, H1>>),
     Host(<<A1, Ports(<<>>)>>),
     Host(<<A1, Ports(<<P1>>), Ports(<<P2>>)>>),
     Host(<<A1, P2, Ports(<<P1>>)>>),
     Host(<<A1, Ports(<<Elem("extraports", {}, <<P2>>), P1>>)>>),
     Host(<<Elem("address", {}, <<>>), Ports(<<P1>>)>>),
     Host(<<Address(""), Ports(<<P1>>)>>),
     Host(<<Address("10.0.0.1"), Address("10.0.0.9"), Ports(<<P1>>)>>),
     Host(<<A1, Hostnames(<<>>), Ports(<<P1>>)>>),
     Host(<<A1, Hostnames(<<Elem("hostname", {}, <<>>)>>), Ports(<<P1>>)>>),
     Host(<<A1, Hostnames(<<HostnameE("")>>), Ports(<<P1>>)>>),
     Host(<<A1, Hostnames(<<HostnameE("a.example"), HostnameE("b.example")>>),
            Ports(<<P1>>)>>),
     Host(<<A1, Ports(<<P1>>), Host(<<Address("10.0.0.3"), Ports(<<P2>>)>>)>>),
     Elem("hosthint", {}, <<Host(<<A1, Ports(<<P1>>)>>)>>),
     Elem("runstats", {}, <<>>)}

\* Root elements: up to MaxHosts children of any shape; one standard host
\* with up to MaxPorts children of any shape in its ports container; a
\* document whose root is itself a host element.
ExtractRoots ==
    {Elem("nmaprun", {}, cs) : cs \in SeqsUpTo(TopLevelVariants, MaxHosts)}
    \cup {Elem("nmaprun", {}, <<Host(<<A1, H1, Ports(ps)>>)>>) :
             ps \in SeqsUpTo(PortVariants \cup {Elem("extraports", {}, <<>>)},
                             MaxPorts)}
    \cup {Elem("host", {}, <<A1, Ports(<<P1>>)>>)}

XmlFile(path, root) ==
    [path |-> path, exists |-> TRUE, kind |-> "xml", root |-> root]

BadFile(path, exists, kind) ==
    [path |-> path, exists |-> exists, kind |-> kind, root |-> NoElem]

ExtractFiles ==
    {XmlFile("scans/scan2.XML", r) : r \in ExtractRoots}
    \cup {BadFile("broken.xml", TRUE, "malformed"),
          BadFile("locked.xml", TRUE, "unreadable")}

(***************************************************************************)
(* SpecExtract: one call of parse_single_nmap_file on one document.        *)
(***************************************************************************)
\* The three output paths as the run finds them: each "absent" or "stale"
\* (left by an earlier run).
PriorOutputs(p) ==
    [csv |-> [state |-> p], xlsx |-> [state |-> p], html |-> [state |-> p]]
NoSummary == [printed |-> FALSE]
\* No page is open.
NoPage == [loaded |-> FALSE]

InitExtract ==
    /\ xml_files \in {<<f>> : f \in ExtractFiles}
    /\ open_only = FALSE /\ excel_output = FALSE /\ html_output = FALSE
    /\ prior = "absent"
    /\ pc = "call"
    /\ i = 1
    /\ file_data = <<>>
    /\ all_data = <<>>
    /\ df = <<>>
    /\ outputs = PriorOutputs(prior)
    /\ summary = NoSummary
    /\ error = ""
    /\ exit_status = <<>>
    /\ page = NoPage

\* The call returns the records of the document.
ExtractReturns ==
    /\ pc = "call"
    /\ ~ParseRaises(xml_files[1])
    /\ file_data' = parse_single_nmap_file(xml_files[1])
    /\ pc' = "returned"
    /\ UNCHANGED <<xml_files, open_only, excel_output, html_output, prior, i,
                   all_data, df, outputs, summary, error,
                   exit_status, page>>

\* ET.parse raises: the call raises before any record is built.
ExtractRaises ==
    /\ pc = "call"
    /\ ParseRaises(xml_files[1])
    /\ error' = ParseErrorOf(xml_files[1])
    /\ pc' = "raised"
    /\ UNCHANGED <<xml_files, open_only, excel_output, html_output, prior, i,
                   file_data, all_data, df, outputs, summary,
                   exit_status, page>>

NextExtract == ExtractReturns \/ ExtractRaises

SpecExtract == InitExtract /\ [][NextExtract]_vars

(***************************************************************************)
(* generate_html_report: the statistics and the data bindings of the page. *)
(***************************************************************************)
TopN == 5

CriticalServices ==
    {"ssh", "telnet", "ftp", "http", "https", "rdp", "ms-wbt-server",
     "mysql", "postgresql", "mssql", "smb", "microsoft-ds"}

\* len(df[df['State'] == state])
CountState(table, state) ==
    Cardinality({k \in 1..Len(table) : table[k].State = state})

\* df[column].nunique() for the columns IP and Service.
DistinctIPs(table) == {table[k].IP : k \in 1..Len(table)}
DistinctServices(table) == {table[k].Service : k \in 1..Len(table)}

\* df[df['State'] == 'open']
OpenRows(table) ==
    LET IsOpen(r) == r.State = "open" IN SelectSeq(table, IsOpen)

\* The count value_counts gives a service among the open rows.
OpenCount(table, service) ==
    Cardinality({k \in 1..Len(table) :
                    table[k].State = "open" /\ table[k].Service = service})

RECURSIVE CountOrders(_, _)
\* The orders in which value_counts may list the services S of the open rows:
\* descending count.  It sorts the counts with an unstable sort, so the order
\* of services of equal count is any.
CountOrders(table, S) ==
    IF S = {} THEN {<<>>}
    ELSE UNION {{<<s>> \o rest : rest \in CountOrders(table, S \ {s})} :
                s \in {t \in S : \A u \in S :
                          OpenCount(table, u) <= OpenCount(table, t)}}

\* TopServices keeping one service more.
TopServices_OneMore(table, order) ==
    [k \in 1..(IF Len(order) < TopN + 1 THEN Len(order) ELSE TopN + 1) |->
        [service |-> order[k], count |-> OpenCount(table, order[k])]]

\* .head(5) of one such order, each service with its count.
TopServices(table, order) ==
    [k \in 1..(IF Len(order) < TopN THEN Len(order) ELSE TopN) |->
        [service |-> order[k], count |-> OpenCount(table, order[k])]]

\* The top-services lists value_counts().head(5) may give.
TopServicesChoices(table) ==
    {TopServices(table, order) :
        order \in CountOrders(table, DistinctServices(OpenRows(table)))}

\* CriticalPorts without the test of the State.
CriticalPorts_AnyState(table) ==
    LET IsCritical(r) == r.Service \in CriticalServices
    IN  SelectSeq(table, IsCritical)

\* df[df['Service'].isin(critical_services) & (df['State'] == 'open')]
CriticalPorts(table) ==
    LET IsCritical(r) == r.Service \in CriticalServices /\ r.State = "open"
    IN  SelectSeq(table, IsCritical)

UpperLetters ==
    <<"A", "B", "C", "D", "E", "F", "G", "H", "I", "J", "K", "L", "M",
      "N", "O", "P", "Q", "R", "S", "T", "U", "V", "W", "X", "Y", "Z">>
LowerLetters ==
    <<"a", "b", "c", "d", "e", "f", "g", "h", "i", "j", "k", "l", "m",
      "n", "o", "p", "q", "r", "s", "t", "u", "v", "w", "x", "y", "z">>

\* The letter of `to` at the place c has in `from`, and c when it has none.
MapChar(c, from, to) ==
    IF \E k \in 1..Len(from) : from[k] = c
    THEN to[CHOOSE k \in 1..Len(from) : from[k] = c]
    ELSE c

\* The string with each of its characters mapped, by halves.
RECURSIVE MapStr(_, _, _)
MapStr(str, from, to) ==
    IF Len(str) = 0 THEN ""
    ELSE IF Len(str) = 1 THEN MapChar(str, from, to)
    ELSE LET half == Len(str) \div 2
         IN  MapStr(SubSeq(str, 1, half), from, to)
             \o MapStr(SubSeq(str, half + 1, Len(str)), from, to)

\* str.lower() (Python) and String.toLowerCase() (the page's script).
Lower(str) == MapStr(str, UpperLetters, LowerLetters)

\* str.upper()
Upper(str) == MapStr(str, LowerLetters, UpperLetters)

\* The white space of the markup between the cells of a row (a line break
\* and 28 spaces), after its Details cell (8) and before </tr> (24).
Sep28 == "\n                            "
Sep8  == "\n        "
Sep24 == "\n                        "

\* The textContent of the <tr> of a record.
RowText(r, show_source) ==
    Sep28 \o r.IP \o Sep28 \o r.Hostname \o Sep28 \o r.PortNumber
    \o Sep28 \o Upper(r.Protocol) \o Sep28 \o Upper(r.State)
    \o Sep28 \o r.Service
    \o (IF r.Service \in CriticalServices /\ r.State = "open"
        THEN "CRITICAL" ELSE "")
    \o Sep28 \o r.Details \o Sep8
    \o (IF show_source THEN r.SourceFile ELSE "") \o Sep24

\* The Source File column is shown when the table names several files.
ShowSource(table) ==
    Cardinality({table[k].SourceFile : k \in 1..Len(table)}) > 1

\* One row of the main table: its data attributes, the record it shows,
\* whether it carries the CRITICAL badge, and its text.
TableRow(r, show_source) ==
    [data_state |-> Lower(r.State), data_ip |-> r.IP, record |-> r,
     critical |-> r.Service \in CriticalServices /\ r.State = "open",
     text |-> RowText(r, show_source)]

\* The page for the table and one top-services list.
HtmlReport(table, top, only_open) ==
    [state |-> "written",
     banner_open_only |-> only_open,
     total_hosts |-> Cardinality(DistinctIPs(table)),
     total_ports |-> Len(table),
     open_ports |-> CountState(table, "open"),
     closed_ports |-> CountState(table, "closed"),
     filtered_ports |-> CountState(table, "filtered"),
     unique_services |-> Cardinality(DistinctServices(table)),
     unique_ips |-> DistinctIPs(table),
     top_services |-> top,
     critical_ports |-> CriticalPorts(table),
     results_count |-> "\n                        Showing {total_ports} results"
                       \o "\n                    ",
     source_column |-> ShowSource(table),
     rows |-> [k \in 1..Len(table) |-> TableRow(table[k], ShowSource(table))]]

(***************************************************************************)
(* The input files of nmap_parser.                                         *)
(***************************************************************************)
Svc(portid, state, name) ==
    PortE(portid, <<StateE(state), ServiceE({<<"name", name>>})>>)

Doc1 ==
    Elem("nmaprun", {},
         <<Host(<<A1, H1, Ports(<<Svc("22", "open", "ssh"), Svc("80", "open", "http"),
                                  Svc("3306", "closed", "mysql"),
                                  Svc("25", "open", "smtp")>>)>>),
           Host(<<Address("10.0.0.4"), Ports(<<Svc("22", "open", "ssh")>>)>>)>>)
Doc2 ==
    Elem("nmaprun", {},
         <<Host(<<Address("10.0.0.2"),
                  Ports(<<Svc("53", "open", "domain"), Svc("22", "open", "ssh")>>)>>),
           Host(<<Address("10.0.0.3"),
                  Ports(<<Svc("53", "open", "domain"), Svc("123", "open", "ntp"),
                          Svc("3306", "open", "mysql"),
                          Svc("8080", "filtered", "http-proxy")>>)>>)>>)
Doc3 ==
    Elem("nmaprun", {},
         <<Host(<<A1, Ports(<<Svc("23", "closed", "telnet"),
                              Svc("443", "filtered", "https"),
                              Svc("161", "open|filtered", "snmp"),
                              PortE("9", <<>>)>>)>>)>>)
Doc4 == Elem("nmaprun", {}, <<Host(<<A1, H1>>), Elem("runstats", {}, <<>>)>>)

InputFiles ==
    {XmlFile("scan1.xml", Doc1),
     XmlFile("scans/scan2.XML", Doc2),
     XmlFile("scan3.xml", Doc3),
     XmlFile("empty.xml", Doc4),
     XmlFile("notes.txt", Doc2),
     BadFile("missing.xml", FALSE, "xml"),
     BadFile("broken.xml", TRUE, "malformed"),
     BadFile("locked.xml", TRUE, "unreadable")}

(***************************************************************************)
(* nmap_parser.                                                            *)
(***************************************************************************)
Columns ==
    <<"IP", "Hostname", "Port Number", "Protocol", "State", "Service",
      "Details", "Source File">>

Init ==
    /\ xml_files \in SeqsUpTo(InputFiles, MaxFiles)
    /\ open_only \in BOOLEAN
    /\ excel_output \in BOOLEAN
    /\ html_output \in BOOLEAN
    /\ prior \in {"absent", "stale"}
    /\ pc = "loop"
    /\ i = 1
    /\ file_data = <<>>
    /\ all_data = <<>>
    /\ df = <<>>
    /\ outputs = PriorOutputs(prior)
    /\ summary = NoSummary
    /\ error = ""
    /\ exit_status = <<>>
    /\ page = NoPage

\* The loop over xml_files: a file without the .xml extension is skipped.
SkipNonXml ==
    /\ pc = "loop" /\ i <= Len(xml_files)
    /\ ~EndsWithXml(xml_files[i].path)
    /\ i' = i + 1
    /\ UNCHANGED <<xml_files, open_only, excel_output, html_output, prior, pc,
                   file_data, all_data, df, outputs, summary, error,
                   exit_status, page>>

\* A file that does not exist is skipped.
SkipMissing ==
    /\ pc = "loop" /\ i <= Len(xml_files)
    /\ EndsWithXml(xml_files[i].path)
    /\ ~xml_files[i].exists
    /\ i' = i + 1
    /\ UNCHANGED <<xml_files, open_only, excel_output, html_output, prior, pc,
                   file_data, all_data, df, outputs, summary, error,
                   exit_status, page>>

\* ParseFile putting the new records before the collected ones.
ParseFile_Prepend ==
    /\ pc = "loop" /\ i <= Len(xml_files)
    /\ EndsWithXml(xml_files[i].path)
    /\ xml_files[i].exists
    /\ ~ParseRaises(xml_files[i])
    /\ file_data' = parse_single_nmap_file(xml_files[i])
    /\ all_data' = file_data' \o all_data
    /\ i' = i + 1
    /\ UNCHANGED <<xml_files, open_only, excel_output, html_output, prior, pc,
                   df, outputs, summary, error,
                   exit_status, page>>

\* The file is extracted and its records are appended to all_data.
ParseFile ==
    /\ pc = "loop" /\ i <= Len(xml_files)
    /\ EndsWithXml(xml_files[i].path)
    /\ xml_files[i].exists
    /\ ~ParseRaises(xml_files[i])
    /\ file_data' = parse_single_nmap_file(xml_files[i])
    /\ all_data' = all_data \o file_data'
    /\ i' = i + 1
    /\ UNCHANGED <<xml_files, open_only, excel_output, html_output, prior, pc,
                   df, outputs, summary, error,
                   exit_status, page>>

\* ParseFails ending the run at the first file that cannot be extracted.
ParseFails_Abort ==
    /\ pc = "loop" /\ i <= Len(xml_files)
    /\ EndsWithXml(xml_files[i].path)
    /\ xml_files[i].exists
    /\ ParseRaises(xml_files[i])
    /\ pc' = "failed"
    /\ error' = ParseErrorOf(xml_files[i])
    /\ UNCHANGED <<xml_files, open_only, excel_output, html_output, prior, i,
                   file_data, all_data, df, outputs, summary,
                   exit_status, page>>

\* The extraction raises: the exception is caught and the loop goes on.
ParseFails ==
    /\ pc = "loop" /\ i <= Len(xml_files)
    /\ EndsWithXml(xml_files[i].path)
    /\ xml_files[i].exists
    /\ ParseRaises(xml_files[i])
    /\ i' = i + 1
    /\ UNCHANGED <<xml_files, open_only, excel_output, html_output, prior, pc,
                   file_data, all_data, df, outputs, summary, error,
                   exit_status, page>>

\* After the loop: no record at all is an error.
NoData ==
    /\ pc = "loop" /\ i > Len(xml_files)
    /\ all_data = <<>>
    /\ pc' = "failed"
    /\ error' = "No valid data found in any of the provided XML files"
    /\ UNCHANGED <<xml_files, open_only, excel_output, html_output, prior, i,
                   file_data, all_data, df, outputs, summary,
                   exit_status, page>>

\* After the loop: the DataFrame is created from all_data.
CreateDataFrame ==
    /\ pc = "loop" /\ i > Len(xml_files)
    /\ all_data # <<>>
    /\ df' = all_data
    /\ pc' = "filter"
    /\ UNCHANGED <<xml_files, open_only, excel_output, html_output, prior, i,
                   file_data, all_data, outputs, summary, error,
                   exit_status, page>>

\* Without open_only the table is left as it is.
NoFilter ==
    /\ pc = "filter" /\ ~open_only
    /\ pc' = "csv"
    /\ UNCHANGED <<xml_files, open_only, excel_output, html_output, prior, i,
                   file_data, all_data, df, outputs, summary, error,
                   exit_status, page>>

\* FilterOpenOnly dropping the closed rows only.
FilterOpenOnly_DropClosed ==
    /\ pc = "filter" /\ open_only
    /\ LET NotClosed(r) == r.State # "closed"
       IN  /\ SelectSeq(df, NotClosed) # <<>>
           /\ df' = SelectSeq(df, NotClosed)
    /\ pc' = "csv"
    /\ UNCHANGED <<xml_files, open_only, excel_output, html_output, prior, i,
                   file_data, all_data, outputs, summary, error,
                   exit_status, page>>

\* With open_only the rows whose State is "open" are kept.
FilterOpenOnly ==
    /\ pc = "filter" /\ open_only
    /\ OpenRows(df) # <<>>
    /\ df' = OpenRows(df)
    /\ pc' = "csv"
    /\ UNCHANGED <<xml_files, open_only, excel_output, html_output, prior, i,
                   file_data, all_data, outputs, summary, error,
                   exit_status, page>>

\* NoOpenPorts raising only after the CSV file has been written.
NoOpenPorts_AfterCsv ==
    /\ pc = "filter" /\ open_only
    /\ OpenRows(df) = <<>>
    /\ df' = OpenRows(df)
    /\ outputs' = [outputs EXCEPT
                      !.csv = [state |-> "written", header |-> Columns, rows |-> df']]
    /\ pc' = "failed"
    /\ error' = "No open ports found in the scan results"
    /\ UNCHANGED <<xml_files, open_only, excel_output, html_output, prior, i,
                   file_data, all_data, summary,
                   exit_status, page>>

\* With open_only and no open row the run fails.
NoOpenPorts ==
    /\ pc = "filter" /\ open_only
    /\ OpenRows(df) = <<>>
    /\ df' = OpenRows(df)
    /\ pc' = "failed"
    /\ error' = "No open ports found in the scan results"
    /\ UNCHANGED <<xml_files, open_only, excel_output, html_output, prior, i,
                   file_data, all_data, outputs, summary,
                   exit_status, page>>

\* WriteCsv writing the records collected before the filter.
WriteCsv_Unfiltered ==
    /\ pc = "csv"
    /\ outputs' = [outputs EXCEPT
                      !.csv = [state |-> "written", header |-> Columns,
                               rows |-> all_data]]
    /\ pc' = "excel"
    /\ UNCHANGED <<xml_files, open_only, excel_output, html_output, prior, i,
                   file_data, all_data, df, summary, error,
                   exit_status, page>>

\* df.to_csv: always.
WriteCsv ==
    /\ pc = "csv"
    /\ outputs' = [outputs EXCEPT
                      !.csv = [state |-> "written", header |-> Columns, rows |-> df]]
    /\ pc' = "excel"
    /\ UNCHANGED <<xml_files, open_only, excel_output, html_output, prior, i,
                   file_data, all_data, df, summary, error,
                   exit_status, page>>

\* df.to_excel: with excel_output.
WriteExcel ==
    /\ pc = "excel" /\ excel_output
    /\ outputs' = [outputs EXCEPT
                      !.xlsx = [state |-> "written", header |-> Columns, rows |-> df]]
    /\ pc' = "html"
    /\ UNCHANGED <<xml_files, open_only, excel_output, html_output, prior, i,
                   file_data, all_data, df, summary, error,
                   exit_status, page>>

SkipExcel ==
    /\ pc = "excel" /\ ~excel_output
    /\ pc' = "html"
    /\ UNCHANGED <<xml_files, open_only, excel_output, html_output, prior, i,
                   file_data, all_data, df, outputs, summary, error,
                   exit_status, page>>

\* generate_html_report: with html_output.
WriteHtml ==
    /\ pc = "html" /\ html_output
    /\ \E top \in TopServicesChoices(df) :
          outputs' = [outputs EXCEPT !.html = HtmlReport(df, top, open_only)]
    /\ pc' = "summary"
    /\ UNCHANGED <<xml_files, open_only, excel_output, html_output, prior, i,
                   file_data, all_data, df, summary, error,
                   exit_status, page>>

SkipHtml ==
    /\ pc = "html" /\ ~html_output
    /\ pc' = "summary"
    /\ UNCHANGED <<xml_files, open_only, excel_output, html_output, prior, i,
                   file_data, all_data, df, outputs, summary, error,
                   exit_status, page>>

\* The printed summary and the entry count of the returned message.
PrintSummary ==
    /\ pc = "summary"
    /\ summary' = [printed |-> TRUE,
                   files_processed |-> Len(xml_files),
                   total_hosts |-> Cardinality(DistinctIPs(df)),
                   total_ports |-> Len(all_data),
                   open_ports |-> CountState(all_data, "open"),
                   closed_ports |-> CountState(all_data, "closed"),
                   filtered_ports |-> CountState(all_data, "filtered"),
                   unique_services |-> Cardinality(DistinctServices(df)),
                   entries |-> Len(df)]
    /\ pc' = "done"
    /\ UNCHANGED <<xml_files, open_only, excel_output, html_output, prior, i,
                   file_data, all_data, df, outputs, error,
                   exit_status, page>>

\* MainExits returning normally after printing the error.
MainExits_Zero ==
    /\ pc = "failed" /\ exit_status = <<>>
    /\ exit_status' = <<0>>
    /\ UNCHANGED <<xml_files, open_only, excel_output, html_output, prior, pc, i,
                   file_data, all_data, df, outputs, summary, error, page>>

\* main: nmap_parser raised; the error is printed and sys.exit(1) is called.
MainExits ==
    /\ pc = "failed" /\ exit_status = <<>>
    /\ exit_status' = <<1>>
    /\ UNCHANGED <<xml_files, open_only, excel_output, html_output, prior, pc, i,
                   file_data, all_data, df, outputs, summary, error, page>>

\* main: nmap_parser returned; the message is printed and main returns.
MainReturns ==
    /\ pc = "done" /\ exit_status = <<>>
    /\ exit_status' = <<0>>
    /\ UNCHANGED <<xml_files, open_only, excel_output, html_output, prior, pc, i,
                   file_data, all_data, df, outputs, summary, error, page>>

Next ==
    \/ SkipNonXml \/ SkipMissing \/ ParseFile \/ ParseFails
    \/ NoData \/ CreateDataFrame
    \/ NoFilter \/ FilterOpenOnly \/ NoOpenPorts
    \/ WriteCsv \/ WriteExcel \/ SkipExcel \/ WriteHtml \/ SkipHtml
    \/ PrintSummary
    \/ MainExits \/ MainReturns

Spec == Init /\ [][Next]_vars

(***************************************************************************)
(* Claims about the extraction, stated on the document itself.             *)
(***************************************************************************)
TheRoot == xml_files[1].root

HasChild(e, tag) == \E k \in 1..Len(e.children) : e.children[k].tag = tag

\* The top-level host elements that have an address child, by position.
AddressedHosts(root) ==
    {h \in 1..Len(root.children) :
        root.children[h].tag = "host" /\ HasChild(root.children[h], "address")}

\* <<h, c, p>>: port p is a direct child of ports container c of host h.
PortSlotsAll(root) ==
    UNION {UNION {{<<h, c, p>> :
                      p \in {q \in 1..Len(root.children[h].children[c].children) :
                                root.children[h].children[c].children[q].tag = "port"}} :
                  c \in {d \in 1..Len(root.children[h].children) :
                            root.children[h].children[d].tag = "ports"}} :
           h \in AddressedHosts(root)}

\* The slots whose ports container is the first one of its host.
PortSlotsFirst(root) ==
    {s \in PortSlotsAll(root) :
        \A c \in 1..(s[2] - 1) : root.children[s[1]].children[c].tag # "ports"}

SlotPort(root, s) == root.children[s[1]].children[s[2]].children[s[3]]

\* The position in the output of the record of slot s: document order.
SlotRank(root, s) ==
    1 + Cardinality({t \in PortSlotsFirst(root) :
                        t[1] < s[1] \/ (t[1] = s[1] /\ t[3] < s[3])})

\* C1 as stated: one record per port element of any ports container of a
\* top-level host that has an address, and no other record.
C1_OnePerPortOfAnyContainer ==
    pc = "returned" => Len(file_data) = Cardinality(PortSlotsAll(TheRoot))

\* C1 amended: one record per port element that is a direct child of the FIRST
\* ports child of a top-level host element having an address child; a host
\* without address or without ports contributes none, and nothing else does.
C1_OnePerPortOfFirstContainer ==
    pc = "returned" => Len(file_data) = Cardinality(PortSlotsFirst(TheRoot))

\* A document with records, a host without address and a host with two
\* ports containers has been extracted.
C1_Witness ==
    /\ pc = "returned"
    /\ Len(file_data) >= 1
    /\ \E h \in 1..Len(TheRoot.children) :
          /\ TheRoot.children[h].tag = "host"
          /\ ~HasChild(TheRoot.children[h], "address")
          /\ HasChild(TheRoot.children[h], "ports")
    /\ PortSlotsAll(TheRoot) # PortSlotsFirst(TheRoot)

\* C2 as stated: every record has all eight fields non-empty, a blank or
\* absent source value being replaced by its sentinel.
C2_AllFieldsPopulated ==
    pc = "returned" =>
        \A k \in 1..Len(file_data) :
            /\ file_data[k].IP # ""
            /\ file_data[k].Hostname # ""
            /\ file_data[k].PortNumber # ""
            /\ file_data[k].Protocol # ""
            /\ file_data[k].State # ""
            /\ file_data[k].Service # ""
            /\ file_data[k].Details # ""
            /\ file_data[k].SourceFile # ""

\* An attribute counts as present when the element has it with a non-blank
\* value.
Present(e, key) == \E a \in e.attrib : a[1] = key /\ a[2] # ""
Val(e, key) == (CHOOSE a \in e.attrib : a[1] = key)[2]

\* The Details of a port as C3 states it, case by case.
ExpectedDetails(port) ==
    LET sv == IF HasChild(port, "service")
              THEN port.children[CHOOSE k \in 1..Len(port.children) :
                       /\ port.children[k].tag = "service"
                       /\ \A j \in 1..(k - 1) : port.children[j].tag # "service"]
              ELSE NoElem
        hp == Present(sv, "product")
        hv == Present(sv, "version")
        he == Present(sv, "extrainfo")
    IN  CASE hp /\ hv /\ he ->
               Val(sv, "product") \o " (" \o Val(sv, "version") \o ") "
                   \o Val(sv, "extrainfo")
          [] hp /\ hv /\ ~he ->
               Val(sv, "product") \o " (" \o Val(sv, "version") \o ")"
          [] hp /\ ~hv /\ he -> Val(sv, "product") \o " " \o Val(sv, "extrainfo")
          [] hp /\ ~hv /\ ~he -> Val(sv, "product")
          [] ~hp /\ hv /\ he ->
               "(" \o Val(sv, "version") \o ") " \o Val(sv, "extrainfo")
          [] ~hp /\ hv /\ ~he -> "(" \o Val(sv, "version") \o ")"
          [] ~hp /\ ~hv /\ he -> Val(sv, "extrainfo")
          [] OTHER -> "Unknown"

\* C3: the Details of every record are the present ones of product,
\* "(" version ")" and extrainfo of its port's service, in that order, joined
\* by single spaces, and "Unknown" when none is present or there is no service.
C3_DetailsComposition ==
    pc = "returned" =>
        \A s \in PortSlotsFirst(TheRoot) :
            /\ SlotRank(TheRoot, s) <= Len(file_data)
            /\ file_data[SlotRank(TheRoot, s)].Details
                   = ExpectedDetails(SlotPort(TheRoot, s))

\* Details of all three parts, of a version alone and of no part were built.
C3_Witness ==
    /\ pc = "returned"
    /\ \E k \in 1..Len(file_data) : file_data[k].Details = "Apache (2.4) (Debian)"
    /\ \E k \in 1..Len(file_data) :
          file_data[k].Details \in {"(2.4)", "(2.4) (Debian)", "Unknown"}

(***************************************************************************)
(* Claims about nmap_parser and the report.                                *)
(***************************************************************************)
\* A file the loop extracts: .xml extension, exists, well-formed.
Usable(f) == EndsWithXml(f.path) /\ f.exists /\ f.kind = "xml"

\* The records a file yields when extracted on its own.
OwnRecords(f) == IF Usable(f) THEN parse_single_nmap_file(f) ELSE <<>>

RECURSIVE ConcatOwn(_)
ConcatOwn(files) ==
    IF files = <<>> THEN <<>>
    ELSE ConcatOwn(SubSeq(files, 1, Len(files) - 1)) \o OwnRecords(files[Len(files)])

AfterFilter == {"csv", "excel", "html", "summary", "done"}

\* C4: the merged table is the concatenation, in the order the files were
\* given, of the records each file yields on its own: at every point of the
\* loop for the files visited so far, and for the DataFrame built from it.
C4_MergeIsConcatenation ==
    /\ all_data = ConcatOwn(SubSeq(xml_files, 1, i - 1))
    /\ pc = "filter" => df = ConcatOwn(xml_files)
    /\ (pc \in AfterFilter /\ ~open_only) => df = ConcatOwn(xml_files)

\* Two different files with records have been merged.
C4_Witness ==
    /\ pc = "filter"
    /\ Len(xml_files) = 2
    /\ OwnRecords(xml_files[1]) # <<>>
    /\ OwnRecords(xml_files[2]) # <<>>
    /\ xml_files[1] # xml_files[2]
    /\ Len(df) = Len(OwnRecords(xml_files[1])) + Len(OwnRecords(xml_files[2]))

\* C5: the step of the loop at a file that lacks the extension, does not
\* exist or fails in extraction leaves the collected records as they are and
\* moves on to the next file, the run staying in the loop.
C5_SkippedFileContributesNothing ==
    [][(pc = "loop" /\ i <= Len(xml_files) /\ ~Usable(xml_files[i]))
          => (all_data' = all_data /\ i' = i + 1 /\ pc' = "loop")]_vars

\* A file failed in extraction after a file that gave records, and the loop
\* went past it with those records kept.
C5_Witness ==
    /\ pc = "loop"
    /\ i = 3
    /\ OwnRecords(xml_files[1]) # <<>>
    /\ xml_files[2].kind = "malformed" /\ xml_files[2].exists
    /\ EndsWithXml(xml_files[2].path)
    /\ all_data = OwnRecords(xml_files[1])

\* C6: a run with no record, or with open_only and no open record, fails, and
\* when it fails the three output paths hold what they held before the run.
C6_NoOutputOnFailure ==
    /\ pc = "failed" => outputs = PriorOutputs(prior)
    /\ (pc # "loop" /\ all_data = <<>>) => pc = "failed"
    /\ (pc \notin {"loop", "filter"} /\ open_only
            /\ \A k \in 1..Len(all_data) : all_data[k].State # "open")
          => pc = "failed"

\* A run with records but no open one failed under open_only, over the files
\* of an earlier run.
C6_Witness ==
    /\ pc = "failed"
    /\ open_only
    /\ all_data # <<>>
    /\ prior = "stale"
    /\ error = "No open ports found in the scan results"

\* The position in table of its n-th row whose State is "open".
NthOpen(table, n) ==
    CHOOSE j \in 1..Len(table) :
        /\ table[j].State = "open"
        /\ Cardinality({m \in 1..j : table[m].State = "open"}) = n

\* C7: under open_only the table handed to the serializers holds exactly the
\* open records of the merged table, in their order, and a run without any
\* open record fails with the "no open ports" error.
C7_OpenOnlyFilter ==
    /\ (open_only /\ pc \in AfterFilter) =>
          /\ \A k \in 1..Len(df) : df[k].State = "open"
          /\ Len(df) = Cardinality({j \in 1..Len(all_data) :
                                       all_data[j].State = "open"})
          /\ \A k \in 1..Len(df) : df[k] = all_data[NthOpen(all_data, k)]
          /\ outputs.csv.state = "written" => outputs.csv.rows = df
          /\ outputs.xlsx.state = "written" => outputs.xlsx.rows = df
          /\ outputs.html.state = "written" =>
                /\ Len(outputs.html.rows) = Len(df)
                /\ \A k \in 1..Len(df) : outputs.html.rows[k].record = df[k]
    /\ (open_only /\ pc \notin {"loop", "filter"} /\ all_data # <<>>
            /\ \A k \in 1..Len(all_data) : all_data[k].State # "open")
          => (pc = "failed" /\ error = "No open ports found in the scan results")

\* An open-only run that dropped closed and filtered records ended with all
\* three files written.
C7_Witness ==
    /\ pc = "done"
    /\ open_only
    /\ \E k \in 1..Len(all_data) : all_data[k].State = "closed"
    /\ \E k \in 1..Len(all_data) : all_data[k].State = "filtered"
    /\ Len(df) >= 2
    /\ outputs.xlsx.state = "written"
    /\ outputs.html.state = "written"

\* The allow-list as the claim gives it.
C8_AllowList ==
    {"ssh", "telnet", "ftp", "http", "https", "rdp", "ms-wbt-server",
     "mysql", "postgresql", "mssql", "smb", "microsoft-ds"}

C8_IsCritical(r) == r.Service \in C8_AllowList /\ r.State = "open"

\* The position in table of its n-th critical row.
NthCritical(table, n) ==
    CHOOSE j \in 1..Len(table) :
        /\ C8_IsCritical(table[j])
        /\ Cardinality({m \in 1..j : C8_IsCritical(table[m])}) = n

\* C8: the critical-services subset of the report holds exactly the records
\* of the table with a Service on the allow-list and State "open", and the
\* CRITICAL badge is on exactly those rows of the main table.
C8_CriticalSubset ==
    outputs.html.state = "written" =>
        LET cp == outputs.html.critical_ports
        IN  /\ \A k \in 1..Len(cp) : C8_IsCritical(cp[k])
            /\ Len(cp) = Cardinality({j \in 1..Len(df) : C8_IsCritical(df[j])})
            /\ \A k \in 1..Len(cp) : cp[k] = df[NthCritical(df, k)]
            /\ \A k \in 1..Len(df) :
                  outputs.html.rows[k].critical <=> C8_IsCritical(df[k])

\* A report over a closed mysql port, an open mysql port and an open port of
\* a service off the list.
C8_Witness ==
    /\ outputs.html.state = "written"
    /\ \E k \in 1..Len(df) : df[k].Service = "mysql" /\ df[k].State = "closed"
    /\ \E k \in 1..Len(df) : df[k].Service = "mysql" /\ df[k].State = "open"
    /\ \E k \in 1..Len(df) : df[k].Service = "smtp" /\ df[k].State = "open"
    /\ Len(outputs.html.critical_ports) >= 3

\* C9 as stated: every statistic of the report and of the printed summary is
\* computed from the table after the open-only filter, so that under
\* open_only the total is the open count and the closed and filtered counts
\* are zero.
C9_StatisticsFromFilteredTable ==
    /\ outputs.html.state = "written" =>
          /\ outputs.html.total_ports = Len(df)
          /\ outputs.html.open_ports = CountState(df, "open")
          /\ outputs.html.closed_ports = CountState(df, "closed")
          /\ outputs.html.filtered_ports = CountState(df, "filtered")
          /\ outputs.html.total_hosts = Cardinality(DistinctIPs(df))
          /\ outputs.html.unique_services = Cardinality(DistinctServices(df))
    /\ summary.printed =>
          /\ summary.total_ports = Len(df)
          /\ summary.open_ports = CountState(df, "open")
          /\ summary.closed_ports = CountState(df, "closed")
          /\ summary.filtered_ports = CountState(df, "filtered")
          /\ summary.total_hosts = Cardinality(DistinctIPs(df))
          /\ summary.unique_services = Cardinality(DistinctServices(df))
    /\ (summary.printed /\ open_only) =>
          /\ summary.total_ports = summary.open_ports
          /\ summary.closed_ports = 0
          /\ summary.filtered_ports = 0

\* The number of open rows of the table with the given service.
C10_Count(service) ==
    Cardinality({j \in 1..Len(df) :
                    df[j].State = "open" /\ df[j].Service = service})

\* The position of the first open row of the table with the given service.
C10_First(service) ==
    CHOOSE j \in 1..Len(df) :
        /\ df[j].State = "open" /\ df[j].Service = service
        /\ \A m \in 1..(j - 1) : ~(df[m].State = "open" /\ df[m].Service = service)

\* C10 amended: at most five services, each of an open record and listed
\* once with its count of open records, in descending count, none left out
\* having a strictly higher count than one listed; the order of services of
\* equal count is not determined.
C10_TopServices ==
    outputs.html.state = "written" =>
        LET top == outputs.html.top_services
        IN  /\ Len(top) <= 5
            /\ \A k \in 1..Len(top) :
                  /\ C10_Count(top[k].service) >= 1
                  /\ top[k].count = C10_Count(top[k].service)
            /\ \A j, k \in 1..Len(top) :
                  /\ j < k => top[j].count >= top[k].count
                  /\ j # k => top[j].service # top[k].service
            /\ \A m \in 1..Len(df) :
                  (df[m].State = "open"
                     /\ \A k \in 1..Len(top) : top[k].service # df[m].Service)
                  => \A k \in 1..Len(top) : C10_Count(df[m].Service) <= top[k].count

\* C10 as stated: the same, and services of equal count are listed in the
\* order in which they were first encountered in the table.
C10_TiesFirstEncountered ==
    /\ C10_TopServices
    /\ outputs.html.state = "written" =>
          LET top == outputs.html.top_services
          IN  \A j, k \in 1..Len(top) :
                 (j < k /\ top[j].count = top[k].count)
                 => C10_First(top[j].service) < C10_First(top[k].service)

\* A report over more than five open services, with services of equal and of
\* different counts among the five listed.
C10_Witness ==
    /\ outputs.html.state = "written"
    /\ Cardinality({df[k].Service : k \in {j \in 1..Len(df) : df[j].State = "open"}}) > 5
    /\ Len(outputs.html.top_services) = 5
    /\ outputs.html.top_services[1].count > outputs.html.top_services[2].count
    /\ outputs.html.top_services[3].count = outputs.html.top_services[4].count
    /\ \E k \in 1..Len(df) : df[k].State # "open"

\* C11: a run that passed both fatal checks has written the CSV file with the
\* eight columns in their fixed order and one row per record of the table;
\* the spreadsheet is written exactly when excel_output is set and the page
\* exactly when html_output is set, each from the table the CSV holds.
C11_OutputFiles ==
    pc = "done" =>
        /\ outputs.csv.state = "written"
        /\ outputs.csv.header = <<"IP", "Hostname", "Port Number", "Protocol",
                                  "State", "Service", "Details", "Source File">>
        /\ outputs.csv.rows = df
        /\ df # <<>>
        /\ open_only => outputs.csv.rows = OpenRows(all_data)
        /\ ~open_only => outputs.csv.rows = all_data
        /\ outputs.xlsx.state = "written" <=> excel_output
        /\ excel_output =>
              /\ outputs.xlsx.header = outputs.csv.header
              /\ outputs.xlsx.rows = outputs.csv.rows
        /\ outputs.html.state = "written" <=> html_output
        /\ html_output =>
              /\ Len(outputs.html.rows) = Len(outputs.csv.rows)
              /\ \A k \in 1..Len(outputs.csv.rows) :
                    outputs.html.rows[k].record = outputs.csv.rows[k]

\* An open-only run that dropped records ended with the spreadsheet written
\* and the page of an earlier run left as it was.
C11_Witness ==
    /\ pc = "done"
    /\ open_only /\ excel_output /\ ~html_output
    /\ prior = "stale"
    /\ Len(df) < Len(all_data)
    /\ outputs.html.state = "stale"

\* C12: the exit status is non-zero when no input file is usable, when no
\* record is extracted and when the open-only filter leaves no record, and
\* zero in every other run.
C12_ExitStatus ==
    exit_status # <<>> =>
        LET merged == ConcatOwn(xml_files)
            fatal  == \/ \A k \in 1..Len(xml_files) : ~Usable(xml_files[k])
                      \/ merged = <<>>
                      \/ /\ open_only
                         /\ \A k \in 1..Len(merged) : merged[k].State # "open"
        IN  /\ fatal => exit_status[1] # 0
            /\ ~fatal => exit_status[1] = 0

\* A run over a usable file whose records are all dropped by the open-only
\* filter has exited.
C12_Witness ==
    /\ exit_status = <<1>>
    /\ open_only
    /\ \E k \in 1..Len(xml_files) : Usable(xml_files[k])
    /\ all_data # <<>>

\* The first child of e with the given tag, for an element that has one.
FirstChild(e, tag) ==
    e.children[CHOOSE k \in 1..Len(e.children) :
                  /\ e.children[k].tag = tag
                  /\ \A j \in 1..(k - 1) : e.children[j].tag # tag]

HasAttr(e, key) == \E a \in e.attrib : a[1] = key

\* The value of attribute key of the first child tag of e, and the sentinel
\* when the child or the attribute is missing.
ChildAttrOr(e, tag, key, sentinel) ==
    IF HasChild(e, tag) /\ HasAttr(FirstChild(e, tag), key)
    THEN Val(FirstChild(e, tag), key)
    ELSE sentinel

\* C13: a well-formed document never makes the extraction fail; a missing
\* hostnames element, hostname child or name attribute gives Hostname "N/A"
\* and otherwise the first hostname's name is used; a missing state element
\* and a state element without state attribute both give State "Unknown"; a
\* missing service element or name attribute gives Service "Unknown".
C13_OptionalParts ==
    /\ xml_files[1].kind = "xml" => pc # "raised"
    /\ pc = "returned" =>
          \A s \in PortSlotsFirst(TheRoot) :
              LET host == TheRoot.children[s[1]]
                  port == SlotPort(TheRoot, s)
                  rec  == file_data[SlotRank(TheRoot, s)]
              IN  /\ rec.Hostname =
                        IF HasChild(host, "hostnames")
                        THEN ChildAttrOr(FirstChild(host, "hostnames"),
                                         "hostname", "name", "N/A")
                        ELSE "N/A"
                  /\ rec.State = ChildAttrOr(port, "state", "state", "Unknown")
                  /\ rec.Service = ChildAttrOr(port, "service", "name", "Unknown")

\* A port without state element and a port whose state element has no state
\* attribute gave two records with the same State "Unknown".
C13_Witness ==
    /\ pc = "returned"
    /\ \E s, t \in PortSlotsFirst(TheRoot) :
          /\ ~HasChild(SlotPort(TheRoot, s), "state")
          /\ HasChild(SlotPort(TheRoot, t), "state")
          /\ file_data[SlotRank(TheRoot, s)].State = "Unknown"
          /\ file_data[SlotRank(TheRoot, t)].State = "Unknown"
          /\ file_data[SlotRank(TheRoot, s)].Hostname = "a.example"

(***************************************************************************)
(* The report page in a browser: a run of nmap_parser with html_output,    *)
(* then the page's script.                                                 *)
(***************************************************************************)
PageFiles == {XmlFile("scan1.xml", Doc1), XmlFile("scan3.xml", Doc3)}

\* The values of the state buttons, of which the first is the active one
\* when the page loads.
StateButtons == <<"all", "open", "closed", "filtered">>

\* What is typed into the search box.
SearchTerms == {"", "SSH", "Closed", "scan3"}

InitPage ==
    /\ xml_files \in SeqsUpTo(PageFiles, MaxFiles)
    /\ open_only \in BOOLEAN
    /\ excel_output = FALSE
    /\ html_output = TRUE
    /\ prior = "absent"
    /\ pc = "loop"
    /\ i = 1
    /\ file_data = <<>>
    /\ all_data = <<>>
    /\ df = <<>>
    /\ outputs = PriorOutputs(prior)
    /\ summary = NoSummary
    /\ error = ""
    /\ exit_status = <<>>
    /\ page = NoPage

\* String.includes
Includes(text, term) ==
    \/ term = ""
    \/ \E k \in 1..Len(text) :
          /\ k + Len(term) <= Len(text) + 1
          /\ SubSeq(text, k, k + Len(term) - 1) = term

\* The text applyFilters puts into the results counter.
CounterText(visibleCount) ==
    "Showing " \o ToString(visibleCount) \o " result"
    \o (IF visibleCount # 1 THEN "s" ELSE "")

\* The browser loads nmap_report.html once the run has ended.  Each row
\* keeps, next to its textContent, that text in lower case: applyFilters
\* computes it anew at every call, from a text that never changes.
OpenPage ==
    /\ exit_status = <<0>>
    /\ outputs.html.state = "written"
    /\ ~page.loaded
    /\ page' = [loaded |-> TRUE,
                currentStateFilter |-> StateButtons[1],
                activeButton |-> StateButtons[1],
                ipOptions |-> {"all"} \cup outputs.html.unique_ips,
                ipFilter |-> "all",
                searchBox |-> "",
                rows |-> [k \in 1..Len(outputs.html.rows) |->
                            [data_state |-> outputs.html.rows[k].data_state,
                             data_ip |-> outputs.html.rows[k].data_ip,
                             textContent |-> outputs.html.rows[k].text,
                             rowText |-> Lower(outputs.html.rows[k].text),
                             display |-> TRUE]],
                resultsCount |-> outputs.html.results_count]
    /\ UNCHANGED <<xml_files, open_only, excel_output, html_output, prior, pc, i,
                   file_data, all_data, df, outputs, summary, error,
                   exit_status>>

\* applyFilters showing every row that passes one of the active filters.
ApplyFilters_AnyFilter(p) ==
    LET searchTerm == Lower(p.searchBox)
        showRow == [k \in 1..Len(p.rows) |->
            \/ /\ p.currentStateFilter = "all" /\ p.ipFilter = "all"
               /\ searchTerm = ""
            \/ /\ p.currentStateFilter # "all"
               /\ p.rows[k].data_state = p.currentStateFilter
            \/ p.ipFilter # "all" /\ p.rows[k].data_ip = p.ipFilter
            \/ searchTerm # "" /\ Includes(p.rows[k].rowText, searchTerm)]
        visibleCount == Cardinality({k \in 1..Len(p.rows) : showRow[k]})
    IN  [p EXCEPT !.rows = [k \in 1..Len(p.rows) |->
                              [p.rows[k] EXCEPT !.display = showRow[k]]],
                  !.resultsCount = CounterText(visibleCount)]

\* applyFilters: every row is shown or hidden and the counter is rewritten.
ApplyFilters(p) ==
    LET searchTerm == Lower(p.searchBox)
        showRow == [k \in 1..Len(p.rows) |->
            /\ ~(/\ p.currentStateFilter # "all"
                 /\ p.rows[k].data_state # p.currentStateFilter)
            /\ ~(p.ipFilter # "all" /\ p.rows[k].data_ip # p.ipFilter)
            /\ ~(searchTerm # "" /\ ~Includes(p.rows[k].rowText, searchTerm))]
        visibleCount == Cardinality({k \in 1..Len(p.rows) : showRow[k]})
    IN  [p EXCEPT !.rows = [k \in 1..Len(p.rows) |->
                              [p.rows[k] EXCEPT !.display = showRow[k]]],
                  !.resultsCount = CounterText(visibleCount)]

\* filterByState, from a click on one of the state buttons.
FilterByState ==
    /\ page.loaded
    /\ \E k \in 1..Len(StateButtons) :
          page' = ApplyFilters([page EXCEPT
                                   !.currentStateFilter = StateButtons[k],
                                   !.activeButton = StateButtons[k]])
    /\ UNCHANGED <<xml_files, open_only, excel_output, html_output, prior, pc, i,
                   file_data, all_data, df, outputs, summary, error,
                   exit_status>>

\* An option of the IP select is chosen: onchange calls applyFilters.
SelectIP ==
    /\ page.loaded
    /\ \E ip \in page.ipOptions :
          page' = ApplyFilters([page EXCEPT !.ipFilter = ip])
    /\ UNCHANGED <<xml_files, open_only, excel_output, html_output, prior, pc, i,
                   file_data, all_data, df, outputs, summary, error,
                   exit_status>>

\* The search box is edited: onkeyup calls applyFilters.
TypeSearch ==
    /\ page.loaded
    /\ \E term \in SearchTerms :
          page' = ApplyFilters([page EXCEPT !.searchBox = term])
    /\ UNCHANGED <<xml_files, open_only, excel_output, html_output, prior, pc, i,
                   file_data, all_data, df, outputs, summary, error,
                   exit_status>>

\* clearAllFilters
ClearAllFilters ==
    /\ page.loaded
    /\ page' = ApplyFilters([page EXCEPT
                                !.currentStateFilter = "all",
                                !.activeButton = StateButtons[1],
                                !.ipFilter = "all",
                                !.searchBox = ""])
    /\ UNCHANGED <<xml_files, open_only, excel_output, html_output, prior, pc, i,
                   file_data, all_data, df, outputs, summary, error,
                   exit_status>>

NextPage ==
    \/ ParseFile
    \/ NoData
    \/ CreateDataFrame
    \/ NoFilter
    \/ FilterOpenOnly
    \/ NoOpenPorts
    \/ WriteCsv
    \/ SkipExcel
    \/ WriteHtml
    \/ PrintSummary
    \/ MainExits
    \/ MainReturns
    \/ OpenPage
    \/ FilterByState
    \/ SelectIP
    \/ TypeSearch
    \/ ClearAllFilters

SpecPage == InitPage /\ [][NextPage]_vars

(***************************************************************************)
(* Claims about the page.                                                  *)
(***************************************************************************)
VisibleRows == {k \in 1..Len(page.rows) : page.rows[k].display}

\* C14: in every state of the loaded page, from its first display on, the
\* results counter shows the number of rows that are visible.
C14_CounterShowsVisibleRows ==
    page.loaded =>
        Includes(page.resultsCount, CounterText(Cardinality(VisibleRows)))

\* Whether row k passes the three filters of the page together.
PassesAll(k) ==
    /\ \/ page.currentStateFilter = "all"
       \/ page.currentStateFilter = page.rows[k].data_state
    /\ \/ page.ipFilter = "all"
       \/ page.ipFilter = page.rows[k].data_ip
    /\ \/ page.searchBox = ""
       \/ Includes(Lower(page.rows[k].textContent), Lower(page.searchBox))

AllReset ==
    /\ page.currentStateFilter = "all"
    /\ page.ipFilter = "all"
    /\ page.searchBox = ""
    /\ \A k \in 1..Len(page.rows) : page.rows[k].display

\* C15: in every state of the loaded page a row is visible exactly when it
\* passes the state filter, the IP filter and the search term together
\* (the row's state being its data-state attribute, its text being its
\* textContent compared without regard to case); and every clearAllFilters
\* step ends with the three filters reset and every row visible.
C15_VisibleIffPassesAll ==
    /\ [](page.loaded =>
             \A k \in 1..Len(page.rows) : page.rows[k].display <=> PassesAll(k))
    /\ [][ClearAllFilters => AllReset']_vars

\* The three filters are set at once; a row of the chosen state and
\* address is hidden by the search term alone, another row is visible.
C15_Witness ==
    /\ page.loaded
    /\ page.currentStateFilter = "open"
    /\ page.ipFilter = "10.0.0.1"
    /\ page.searchBox = "SSH"
    /\ VisibleRows # {}
    /\ \E k \in 1..Len(page.rows) :
          /\ ~page.rows[k].display
          /\ page.rows[k].data_state = "open"
          /\ page.rows[k].data_ip = "10.0.0.1"

====
